---- MODULE Spec2Model ----
(***************************************************************************)
(* A model of the IPA palette plugin (src/main.ts): the settings object    *)
(* (four visibility flags and categoryOrder), its load / save cycle, the   *)
(* settings tab's toggle and drop handlers, the palette views with their   *)
(* remembered editor, activateView, and insertCharacterAtCursor.           *)
(*                                                                         *)
(* JavaScript indices are kept 0-based as values; At(s, i) reads s[i].     *)
(***************************************************************************)
EXTENDS Integers, Sequences, FiniteSets

\* ------------------------------------------------------------------ bounds
MaxMutations == 2      \* toggle / drop handlers run in one behaviour
MaxLeaves == 2         \* sidebar leaves, and setViewState calls awaited at once
MaxInserts == 1        \* symbol clicks in one behaviour
MaxShownMutations == 1 \* the same, in behaviours that follow the panel too

\* --------------------------------------------------------------- constants
IPA_VIEW_TYPE == "ipa-palette-view"

CategoryNames == <<"Vowels", "Consonants", "Diacritics", "Suprasegmentals">>

Categories == {CategoryNames[i] : i \in 1..Len(CategoryNames)}

Fields == {"showVowels", "showConsonants", "showDiacritics",
           "showSuprasegmentals", "categoryOrder"}

\* A JavaScript value held in categoryOrder: an array of strings, or null.
Arr(items) == [isArray |-> TRUE, items |-> items]

Null == [isArray |-> FALSE, items |-> <<>>]

\* The value of an array slot that was never written (const [moved] = []).
Undefined == "undefined"

DEFAULT_SETTINGS ==
    [showVowels |-> TRUE,
     showConsonants |-> TRUE,
     showDiacritics |-> TRUE,
     showSuprasegmentals |-> TRUE,
     categoryOrder |-> Arr(CategoryNames)]

\* A Consonants toggle copied from the Vowels one with its field left as it was.
FlagOfPasted(category) ==
    CASE category = "Vowels" -> "showVowels"
      [] category = "Consonants" -> "showVowels"
      [] category = "Diacritics" -> "showDiacritics"
      [] category = "Suprasegmentals" -> "showSuprasegmentals"

\* The settings field that the toggle of a category writes.
FlagOf(category) ==
    CASE category = "Vowels" -> "showVowels"
      [] category = "Consonants" -> "showConsonants"
      [] category = "Diacritics" -> "showDiacritics"
      [] category = "Suprasegmentals" -> "showSuprasegmentals"

\* The glyphs of each category that the model keeps (each is one UTF-16 code
\* unit, as every glyph of the four tables is); a glyph is a sequence of
\* code units, so that Len is char.length.
ipaVowels == << <<"i">> >>

ipaConsonants == << <<"p">> >>

diacritics == << <<"ring">> >>

suprasegmentals == << <<"long">> >>

CharactersOf(category) ==
    CASE category = "Vowels" -> ipaVowels
      [] category = "Consonants" -> ipaConsonants
      [] category = "Diacritics" -> diacritics
      [] category = "Suprasegmentals" -> suprasegmentals

\* ------------------------------------------------------------ pure helpers
At(s, i) == s[i + 1]

Min(a, b) == IF a < b THEN a ELSE b

Max(a, b) == IF a > b THEN a ELSE b

Range(s) == {s[i] : i \in 1..Len(s)}

Digits == <<"0", "1", "2", "3", "4", "5", "6", "7", "8", "9">>

IsDigit(c) == c \in Range(Digits)

DigitValue(c) == (CHOOSE i \in 1..Len(Digits) : Digits[i] = c) - 1

\* Number.prototype.toString for an integer: a string is a sequence of
\* characters.
RECURSIVE NatToString(_)
NatToString(n) ==
    IF n < 10 THEN <<Digits[n + 1]>>
    ELSE NatToString(n \div 10) \o <<Digits[(n % 10) + 1]>>

IntToString(n) == IF n < 0 THEN <<"-">> \o NatToString(0 - n) ELSE NatToString(n)

\* The value of the longest prefix of s made of digits, acc being the value
\* read so far.
RECURSIVE DigitPrefix(_, _)
DigitPrefix(s, acc) ==
    IF s = <<>> \/ ~IsDigit(Head(s)) THEN acc
    ELSE DigitPrefix(Tail(s), acc * 10 + DigitValue(Head(s)))

\* parseInt(s): an optional sign, then the leading digits; NaN when there is
\* no digit to read. A number is [nan |-> FALSE, n |-> value].
NaN == [nan |-> TRUE, n |-> 0]

Num(n) == [nan |-> FALSE, n |-> n]

ParseInt(s) ==
    LET neg == s # <<>> /\ Head(s) = "-"
        signed == s # <<>> /\ Head(s) \in {"-", "+"}
        body == IF signed THEN Tail(s) ELSE s
    IN  IF body = <<>> \/ ~IsDigit(Head(body)) THEN NaN
        ELSE IF neg THEN Num(0 - DigitPrefix(body, 0))
        ELSE Num(DigitPrefix(body, 0))

\* ToIntegerOrInfinity of a splice argument: NaN reads as 0.
ToInteger(x) == IF x.nan THEN 0 ELSE x.n

\* Array.prototype.splice: the clamped start index.
SpliceStart(len, start) ==
    IF ToInteger(start) < 0 THEN Max(len + ToInteger(start), 0)
    ELSE Min(ToInteger(start), len)

\* Array.prototype.splice: the clamped delete count.
SpliceCount(len, start, deleteCount) ==
    Min(Max(deleteCount, 0), len - SpliceStart(len, start))

\* Array.prototype.splice: the removed elements (its return value).
SpliceRemoved(arr, start, deleteCount) ==
    LET s == SpliceStart(Len(arr), start)
        c == SpliceCount(Len(arr), start, deleteCount)
    IN  SubSeq(arr, s + 1, s + c)

\* Array.prototype.splice: the array afterwards.
SpliceResult(arr, start, deleteCount, items) ==
    LET s == SpliceStart(Len(arr), start)
        c == SpliceCount(Len(arr), start, deleteCount)
    IN  SubSeq(arr, 1, s) \o items \o SubSeq(arr, s + c + 1, Len(arr))

\* A reorder that swaps the two positions instead of moving one item.
ReorderSwap(order, fromIndex, toIndex) ==
    LET f == SpliceStart(Len(order), fromIndex)
    IN  IF f < Len(order) /\ toIndex < Len(order)
        THEN [order EXCEPT ![f + 1] = order[toIndex + 1],
                           ![toIndex + 1] = order[f + 1]]
        ELSE order

\* The drop handler's new array: splice the moved entry out at fromIndex and
\* back in at toIndex.
Reorder(order, fromIndex, toIndex) ==
    LET removed == SpliceRemoved(order, fromIndex, 1)
        afterRemove == SpliceResult(order, fromIndex, 1, <<>>)
        moved == IF removed = <<>> THEN Undefined ELSE removed[1]
    IN  SpliceResult(afterRemove, Num(toIndex), 0, <<moved>>)

\* A merge that takes the persisted object whole when there is one, the
\* fields it lacks reading as undefined (falsy flags, no array).
ObjectAssignWhole(target, source) ==
    [f \in Fields |->
        IF source.has = {} THEN target[f]
        ELSE IF f \in source.has THEN source.val[f]
        ELSE IF f = "categoryOrder" THEN Null
        ELSE FALSE]

\* Object.assign(target, source) on the settings fields: every own field of
\* the source is copied over the target's; source is [has, val], has being
\* the set of fields the object carries.
ObjectAssign(target, source) ==
    [f \in Fields |-> IF f \in source.has THEN source.val[f] ELSE target[f]]

\* The value loadSettings stores: Object.assign({}, DEFAULT_SETTINGS, data),
\* the empty object first taking every field of DEFAULT_SETTINGS.
MergeSettings(data) == ObjectAssign(DEFAULT_SETTINGS, data)

\* A switch that creates the section whatever its flag says.
SectionForShowsAll(s, category) ==
    IF category \in Categories THEN <<category>> ELSE <<>>

\* One iteration of onOpen's switch: the section created for an entry of
\* categoryOrder, if any.
SectionFor(s, category) ==
    CASE category = "Vowels" ->
            IF s.showVowels THEN <<"Vowels">> ELSE <<>>
      [] category = "Consonants" ->
            IF s.showConsonants THEN <<"Consonants">> ELSE <<>>
      [] category = "Diacritics" ->
            IF s.showDiacritics THEN <<"Diacritics">> ELSE <<>>
      [] category = "Suprasegmentals" ->
            IF s.showSuprasegmentals THEN <<"Suprasegmentals">> ELSE <<>>
      [] OTHER -> <<>>

\* onOpen's loop over categoryOrder: the titles of the sections it creates,
\* in creation order.
RECURSIVE Sections(_, _)
Sections(s, order) ==
    IF order = <<>> THEN <<>>
    ELSE SectionFor(s, Head(order)) \o Sections(s, Tail(order))

\* The content of the panel after onOpen: for ... of a value that is not
\* iterable throws after contentEl.empty(), leaving no section.
OnOpenSections(s) ==
    IF s.categoryOrder.isArray THEN Sections(s, s.categoryOrder.items) ELSE <<>>

\* --------------------------------------------------------- persisted data
\* What loadData() may return: nothing (first run), a partial object, an
\* object saved by an earlier run, and objects whose categoryOrder was edited
\* by hand or written by another version.
NoData == [has |-> {}, val |-> DEFAULT_SETTINGS]

OnlyShowVowels ==
    [has |-> {"showVowels"},
     val |-> [DEFAULT_SETTINGS EXCEPT !.showVowels = FALSE]]

SavedEarlier ==
    [has |-> Fields,
     val |-> [DEFAULT_SETTINGS EXCEPT
                !.showConsonants = FALSE,
                !.categoryOrder =
                    Arr(<<"Diacritics", "Vowels", "Consonants", "Suprasegmentals">>)]]

ForeignOrder ==
    [has |-> {"categoryOrder"},
     val |-> [DEFAULT_SETTINGS EXCEPT
                !.categoryOrder =
                    Arr(<<"Tones", "Vowels", "Consonants", "Diacritics">>)]]

NullOrder ==
    [has |-> {"categoryOrder"},
     val |-> [DEFAULT_SETTINGS EXCEPT !.categoryOrder = Null]]

PersistedData ==
    {NoData, OnlyShowVowels, SavedEarlier, ForeignOrder, NullOrder}

\* The text a drag may carry besides the index that dragstart stored: a drag
\* that started outside the list (a selection of text, another list).
ForeignDragData == {<<"I", "P", "A">>, <<"4">>}

\* ------------------------------------------------------------- the editors
Editors == {"e1", "e2"}

\* The MarkdownView that owns each editor (activeView.editor).
MarkdownViews == {"m1", "m2"}

EditorOf(view) == IF view = "m1" THEN "e1" ELSE "e2"

None == "none"

InitialDocs ==
    [e \in Editors |->
        IF e = "e1"
        THEN [lines |-> << <<"a", "b">>, <<>> >>, cursor |-> [line |-> 0, ch |-> 0]]
        ELSE [lines |-> << <<>> >>, cursor |-> [line |-> 0, ch |-> 0]]]

\* The positions a cursor can take in a document.
Positions(doc) ==
    UNION {{[line |-> l, ch |-> c] : c \in 0..Len(At(doc.lines, l))} :
            l \in 0..(Len(doc.lines) - 1)}

\* editor.replaceRange(text, pos) with no end position: text is inserted at
\* pos.
ReplaceRange(doc, text, pos) ==
    LET old == At(doc.lines, pos.line)
        new == SubSeq(old, 1, pos.ch) \o text \o SubSeq(old, pos.ch + 1, Len(old))
    IN  [doc EXCEPT !.lines[pos.line + 1] = new]

\* editor.setCursor(pos).
SetCursor(doc, pos) == [doc EXCEPT !.cursor = pos]

\* ------------------------------------------------------------------- state
\* The leaves of the right sidebar. A palette view is known by the leaf that
\* holds it; a view whose leaf was closed, or that another view replaced, is
\* reachable through plugin.ipaView only.
Leaves == 1..MaxLeaves

VARIABLES
    stored,       \* what the storage collaborator holds: [has, val]
    loaded,       \* loadSettings has run (onload's first await is over)
    settings,     \* plugin.settings
    pending,      \* handlers suspended at `await this.plugin.saveSettings()`
    shown,        \* the settings tab: [open, labels] as of the last display()
    leafOpen,     \* leaf -> it holds a palette view (whose listener is
                  \* registered)
    svs,          \* leaf -> setViewState calls still awaited on it
    ipaView,      \* plugin.ipaView: [assigned, leaf], leaf being 0 when the
                  \* view it refers to is no longer in a leaf
    target,       \* leaf -> [editor, view]: lastActiveEditor and
                  \* lastActiveView of the view it holds
    rendered,     \* leaf -> the section titles in the contentEl of its view
    docs,         \* editor -> [lines, cursor]
    lastGenuine,  \* history: the editor of the latest focus change that
                  \* resolved to a MarkdownView
    everSeen,     \* history: leaf -> the listener of its view has stored an
                  \* editor
    nmut,         \* toggle / drop handlers run so far
    nins,         \* symbol clicks so far
    rejections,   \* history: saves the storage collaborator has rejected
    last          \* history: what the latest handler did

vars ==
    <<stored, loaded, settings, pending, shown, leafOpen, svs,
      ipaView, target, rendered, docs, lastGenuine, everSeen,
      nmut, nins, rejections, last>>

cfgVars == <<stored, loaded, settings, pending, shown, nmut, rejections>>

panelVars == <<leafOpen, svs, ipaView>>

editVars == <<docs, lastGenuine, everSeen, nins>>

NoTarget == [editor |-> None, view |-> None]

\* The record of a handler that did nothing worth recording.
NoEvent ==
    [op |-> "none",
     leaf |-> 0,               \* the leaf of the palette view the handler ran on
     editor |-> None,          \* the editor an insertion went to
     sym |-> <<>>,             \* the glyph clicked
     docsBefore |-> InitialDocs,
     notices |-> 0,            \* new Notice(...) calls
     calls |-> <<>>,           \* editor methods called, in order
     category |-> None,
     from |-> NaN,             \* the drop's fromIndex
     to |-> 0,                 \* the drop's toIndex
     settingsBefore |-> DEFAULT_SETTINGS,
     data |-> NoData,          \* what loadData returned
     pendingBefore |-> 0,      \* handlers suspended when this one began
     saveIssued |-> FALSE,     \* saveSettings was called
     refreshed |-> FALSE,      \* refreshView was called
     payload |-> DEFAULT_SETTINGS,  \* what saveData was given
     latest |-> FALSE]         \* the save completed was the latest one issued

\* The plugin as constructed, data being what the storage holds; settings
\* is unassigned until loadSettings runs and nothing reads it before.
InitWith(data) ==
    /\ stored = data
    /\ loaded = FALSE
    /\ settings = DEFAULT_SETTINGS
    /\ pending = <<>>
    /\ shown = [open |-> FALSE, labels |-> <<>>]
    /\ leafOpen = [l \in Leaves |-> FALSE]
    /\ svs = [l \in Leaves |-> 0]
    /\ ipaView = [assigned |-> FALSE, leaf |-> 0]
    /\ target = [l \in Leaves |-> NoTarget]
    /\ rendered = [l \in Leaves |-> <<>>]
    /\ docs = InitialDocs
    /\ lastGenuine = None
    /\ everSeen = [l \in Leaves |-> FALSE]
    /\ nmut = 0
    /\ nins = 0
    /\ rejections = 0
    /\ last = NoEvent

Init == \E data \in PersistedData : InitWith(data)

\* ------------------------------------------------------------ configuration
\* loadSettings, the first statement of onload.
LoadSettings ==
    /\ ~loaded
    /\ loaded' = TRUE
    /\ settings' = MergeSettings(stored)
    /\ last' = [NoEvent EXCEPT !.op = "load", !.data = stored]
    /\ UNCHANGED <<stored, pending, shown, nmut, rejections>>
    /\ UNCHANGED <<panelVars, target, rendered, editVars>>

\* The order list display() builds: one item per entry of categoryOrder, each
\* carrying its label and its index; reading .length of null throws after
\* the toggles were built, leaving no item.
Display(s) ==
    [open |-> TRUE,
     labels |-> IF s.categoryOrder.isArray THEN s.categoryOrder.items ELSE <<>>]

\* The user opens the settings tab: the host calls display().
DisplaySettings ==
    /\ loaded
    /\ shown # Display(settings)
    /\ shown' = Display(settings)
    /\ last' = NoEvent
    /\ UNCHANGED <<stored, loaded, settings, pending, nmut, rejections>>
    /\ UNCHANGED <<panelVars, target, rendered, editVars>>

\* A save that hands the storage the object as it was before the change.
SavePayloadStale(before, after) == before

\* saveSettings: saveData is given this.settings, the whole object, as it is
\* when the handler calls it.
SavePayload(before, after) == after

\* A handler suspended at its await; the earlier ones are no longer the
\* latest save issued.
Suspend(kind, payload) ==
    Append([k \in 1..Len(pending) |-> [pending[k] EXCEPT !.latest = FALSE]],
           [kind |-> kind, payload |-> payload, latest |-> TRUE])

\* The onChange handler of the toggle of a category, up to its await: the
\* toggle reports the negation of the value it shows.
Toggle(category) ==
    /\ loaded
    /\ shown.open
    /\ nmut < MaxMutations
    /\ LET flag == FlagOf(category)
           value == ~settings[flag]
           new == [settings EXCEPT ![flag] = value]
       IN  /\ settings' = new
           /\ pending' = Suspend("toggle", SavePayload(settings, new))
           /\ last' = [NoEvent EXCEPT !.op = "toggle",
                                      !.category = category,
                                      !.settingsBefore = settings,
                                      !.saveIssued = TRUE,
                                      !.payload = SavePayload(settings, new)]
    /\ nmut' = nmut + 1
    /\ UNCHANGED <<stored, loaded, shown, rejections>>
    /\ UNCHANGED <<panelVars, target, rendered, editVars>>

\* A drop handler that reorders whatever the two indices are.
ShouldReorderAlways(fromIndex, toIndex) == TRUE

\* fromIndex !== toIndex: NaN differs from every number.
ShouldReorder(fromIndex, toIndex) == fromIndex.nan \/ fromIndex.n # toIndex

\* What a drag onto the list can carry: the index that the dragstart handler
\* of one of the items shown stored, or text from elsewhere.
DragData == {IntToString(j) : j \in 0..(Len(shown.labels) - 1)} \cup ForeignDragData

\* The drop handler of item i, up to its await.
Drop(i, data) ==
    /\ loaded
    /\ shown.open
    /\ settings.categoryOrder.isArray
    /\ nmut < MaxMutations
    /\ LET fromIndex == ParseInt(data)
           toIndex == i
           newOrder == Reorder(settings.categoryOrder.items, fromIndex, toIndex)
           new == [settings EXCEPT !.categoryOrder = Arr(newOrder)]
           ev == [NoEvent EXCEPT !.op = "drop",
                                 !.from = fromIndex,
                                 !.to = toIndex,
                                 !.pendingBefore = Len(pending),
                                 !.settingsBefore = settings]
       IN  IF ShouldReorder(fromIndex, toIndex)
           THEN /\ settings' = new
                /\ pending' = Suspend("drop", SavePayload(settings, new))
                /\ last' = [ev EXCEPT !.saveIssued = TRUE,
                                      !.payload = SavePayload(settings, new)]
           ELSE /\ UNCHANGED <<settings, pending>>
                /\ last' = ev
    /\ nmut' = nmut + 1
    /\ UNCHANGED <<stored, loaded, shown, rejections>>
    /\ UNCHANGED <<panelVars, target, rendered, editVars>>

RemoveAt(s, k) == SubSeq(s, 1, k - 1) \o SubSeq(s, k + 1, Len(s))

\* refreshView: onOpen of the view the plugin last constructed, if any; when
\* that view is in no leaf any more, what it renders is shown nowhere.
RefreshView ==
    IF ipaView.assigned /\ ipaView.leaf # 0
    THEN [rendered EXCEPT ![ipaView.leaf] = OnOpenSections(settings)]
    ELSE rendered

\* saveData fulfils: the handler resumes, calls refreshView and, in the drop
\* handler, display().
SaveResolved(k) ==
    /\ k \in 1..Len(pending)
    /\ stored' = [has |-> Fields, val |-> pending[k].payload]
    /\ rendered' = RefreshView
    /\ shown' = IF pending[k].kind = "drop" THEN Display(settings) ELSE shown
    /\ pending' = RemoveAt(pending, k)
    /\ last' = [NoEvent EXCEPT !.op = "saveResolved",
                               !.payload = pending[k].payload,
                               !.latest = pending[k].latest,
                               !.settingsBefore = settings,
                               !.leaf = ipaView.leaf,
                               !.refreshed = TRUE]
    /\ UNCHANGED <<loaded, settings, nmut, rejections>>
    /\ UNCHANGED <<panelVars, target, editVars>>

\* saveData rejects: the await throws and the handler ends there.
SaveRejected(k) ==
    /\ k \in 1..Len(pending)
    /\ pending' = RemoveAt(pending, k)
    /\ rejections' = rejections + 1
    /\ last' = [NoEvent EXCEPT !.op = "saveRejected",
                               !.payload = pending[k].payload,
                               !.latest = pending[k].latest,
                               !.settingsBefore = settings]
    /\ UNCHANGED <<stored, loaded, settings, shown, nmut>>
    /\ UNCHANGED <<panelVars, target, rendered, editVars>>

\* ------------------------------------------------------------------- panel
\* workspace.getLeavesOfType(IPA_VIEW_TYPE).
LeavesOfType == {l \in Leaves : leafOpen[l]}

\* Leaves of the sidebar that hold no view yet although a setViewState was
\* called on them.
EmptyLeaves == {l \in Leaves : ~leafOpen[l] /\ svs[l] > 0}

UnusedLeaves == {l \in Leaves : ~leafOpen[l] /\ svs[l] = 0}

\* workspace.getRightLeaf(false): the host may hand out a leaf it creates or
\* a leaf of the sidebar that is still empty.
RightLeaves ==
    EmptyLeaves \cup
    (IF UnusedLeaves = {} THEN {}
     ELSE {CHOOSE l \in UnusedLeaves : \A m \in UnusedLeaves : l <= m})

RECURSIVE SumTo(_, _)
SumTo(f, n) == IF n = 0 THEN 0 ELSE f[n] + SumTo(f, n - 1)

\* The setViewState calls still awaited.
Awaited == SumTo(svs, MaxLeaves)

\* activateView up to its await. Its two callers, the onLayoutReady callback
\* and the 'Open IPA Palette' command, pass nothing and are one action.
ActivateView ==
    /\ loaded
    /\ IF LeavesOfType # {}
       THEN UNCHANGED svs
       ELSE /\ Awaited < MaxLeaves
            /\ \E l \in RightLeaves : svs' = [svs EXCEPT ![l] = @ + 1]
    /\ last' = NoEvent
    /\ UNCHANGED <<leafOpen, ipaView>>
    /\ UNCHANGED <<cfgVars, target, rendered, editVars>>

\* setViewState completes: the registered view creator has constructed a view
\* for the leaf (the constructor subscribes to active-leaf-change and
\* plugin.ipaView is assigned), a view the leaf held before is closed, and
\* the host has called onOpen.
SetViewStateDone(l) ==
    /\ svs[l] > 0
    /\ svs' = [svs EXCEPT ![l] = @ - 1]
    /\ leafOpen' = [leafOpen EXCEPT ![l] = TRUE]
    /\ ipaView' = [assigned |-> TRUE, leaf |-> l]
    /\ target' = [target EXCEPT ![l] = NoTarget]
    /\ everSeen' = [everSeen EXCEPT ![l] = FALSE]
    /\ rendered' = [rendered EXCEPT ![l] = OnOpenSections(settings)]
    /\ last' = [NoEvent EXCEPT !.op = "open", !.leaf = l]
    /\ UNCHANGED <<cfgVars, docs, lastGenuine, nins>>

\* The user closes the panel: the leaf is detached, the view unloads (its
\* listener is removed) and onClose empties its content.
CloseLeaf(l) ==
    /\ leafOpen[l]
    /\ leafOpen' = [leafOpen EXCEPT ![l] = FALSE]
    /\ ipaView' = IF ipaView.leaf = l THEN [ipaView EXCEPT !.leaf = 0] ELSE ipaView
    /\ target' = [target EXCEPT ![l] = NoTarget]
    /\ everSeen' = [everSeen EXCEPT ![l] = FALSE]
    /\ rendered' = [rendered EXCEPT ![l] = <<>>]
    /\ last' = NoEvent
    /\ UNCHANGED svs
    /\ UNCHANGED <<cfgVars, docs, lastGenuine, nins>>

\* ----------------------------------------------------------------- tracker
\* The active-leaf-change listener of a view: activeView is what
\* getActiveViewOfType(MarkdownView) returns, None for null.
OnActiveLeafChange(t, activeView) ==
    IF activeView # None
    THEN [editor |-> EditorOf(activeView), view |-> activeView]
    ELSE t

\* The host reports a focus change; every registered listener runs.
FocusChange(activeView) ==
    /\ target' = [l \in Leaves |->
                    IF leafOpen[l] THEN OnActiveLeafChange(target[l], activeView)
                    ELSE target[l]]
    /\ everSeen' = [l \in Leaves |->
                    everSeen[l] \/ (leafOpen[l] /\ activeView # None)]
    /\ lastGenuine' = IF activeView # None THEN EditorOf(activeView)
                      ELSE lastGenuine
    /\ last' = NoEvent
    /\ UNCHANGED <<docs, nins, rendered>>
    /\ UNCHANGED <<cfgVars, panelVars>>

\* The user places the cursor of an editor.
MoveCursor(e, pos) ==
    /\ pos \in Positions(docs[e])
    /\ pos # docs[e].cursor
    /\ docs' = [docs EXCEPT ![e] = SetCursor(@, pos)]
    /\ last' = NoEvent
    /\ UNCHANGED <<lastGenuine, everSeen, nins, target, rendered>>
    /\ UNCHANGED <<cfgVars, panelVars>>

\* An insertion that leaves the cursor where it was.
InsertCharacterAtCursorNoAdvance(t, ds, char) ==
    IF t.editor # None /\ t.view # None
    THEN [docs |-> [ds EXCEPT ![t.editor] =
                        ReplaceRange(ds[t.editor], char, ds[t.editor].cursor)],
          editor |-> t.editor, notices |-> 0,
          calls |-> <<"getCursor", "replaceRange", "focus">>]
    ELSE [docs |-> ds, editor |-> None, notices |-> 1, calls |-> <<>>]

\* An insertion that says nothing when there is no editor.
InsertCharacterAtCursorSilent(t, ds, char) ==
    IF t.editor # None /\ t.view # None
    THEN [docs |-> [ds EXCEPT ![t.editor] =
                        SetCursor(ReplaceRange(ds[t.editor], char, ds[t.editor].cursor),
                                  [line |-> ds[t.editor].cursor.line,
                                   ch |-> ds[t.editor].cursor.ch + Len(char)])],
          editor |-> t.editor, notices |-> 0,
          calls |-> <<"getCursor", "replaceRange", "setCursor", "focus">>]
    ELSE [docs |-> ds, editor |-> None, notices |-> 0, calls |-> <<>>]

\* insertCharacterAtCursor on a view whose stored pair is t: the documents
\* afterwards, the editor written to, the notices raised and the editor
\* methods called.
InsertCharacterAtCursor(t, ds, char) ==
    IF t.editor # None /\ t.view # None
    THEN LET editor == t.editor
             cursor == ds[editor].cursor
             replaced == ReplaceRange(ds[editor], char, cursor)
             moved == SetCursor(replaced, [line |-> cursor.line,
                                           ch |-> cursor.ch + Len(char)])
         IN  [docs |-> [ds EXCEPT ![editor] = moved],
              editor |-> editor, notices |-> 0,
              calls |-> <<"getCursor", "replaceRange", "setCursor", "focus">>]
    ELSE [docs |-> ds, editor |-> None, notices |-> 1, calls |-> <<>>]

\* The click listener of a button of a section of the view in leaf l.
Click(l, category, char) ==
    /\ leafOpen[l]
    /\ category \in Range(rendered[l])
    /\ char \in Range(CharactersOf(category))
    /\ nins < MaxInserts
    /\ nins' = nins + 1
    /\ LET r == InsertCharacterAtCursor(target[l], docs, char)
       IN  /\ docs' = r.docs
           /\ last' = [NoEvent EXCEPT !.op = "click",
                                      !.leaf = l,
                                      !.sym = char,
                                      !.category = category,
                                      !.editor = r.editor,
                                      !.docsBefore = docs,
                                      !.notices = r.notices,
                                      !.calls = r.calls]
    /\ UNCHANGED <<lastGenuine, everSeen, target, rendered>>
    /\ UNCHANGED <<cfgVars, panelVars>>

\* ---------------------------------------------------------- specifications
\* The user changes the configuration in the settings tab.
Mutate ==
    \/ \E c \in Categories : Toggle(c)
    \/ \E i \in 0..(Len(shown.labels) - 1) : \E data \in DragData : Drop(i, data)

\* The settings tab is opened, a save completes.
Settle ==
    \/ DisplaySettings
    \/ \E k \in 1..Len(pending) : SaveResolved(k)
    \/ \E k \in 1..Len(pending) : SaveRejected(k)

Configure == Mutate \/ Settle

Panel ==
    \/ ActivateView
    \/ \E l \in Leaves : SetViewStateDone(l)
    \/ \E l \in Leaves : CloseLeaf(l)

Edit ==
    \/ \E a \in MarkdownViews \cup {None} : FocusChange(a)
    \/ \E e \in Editors : \E pos \in Positions(docs[e]) : MoveCursor(e, pos)
    \/ \E l \in Leaves : \E c \in Categories : \E ch \in Range(CharactersOf(c)) :
          Click(l, c, ch)

Next == LoadSettings \/ Configure \/ Panel \/ Edit

Spec == Init /\ [][Next]_vars

\* The settings tab alone: load, the toggles, the drops and the saves.
NextStore == LoadSettings \/ Configure

SpecStore == Init /\ [][NextStore]_vars

\* The drop handler on every order an earlier run can have saved: the
\* persisted categoryOrder is any permutation of the four names.
SavedOrders ==
    {[has |-> {"categoryOrder"},
      val |-> [DEFAULT_SETTINGS EXCEPT !.categoryOrder = Arr(p)]] :
        p \in {q \in [1..Len(CategoryNames) -> Categories] : Range(q) = Categories}}

InitReorder == \E data \in SavedOrders : InitWith(data)

NextReorder ==
    \/ LoadSettings
    \/ (nmut < MaxShownMutations /\
            \E i \in 0..(Len(shown.labels) - 1) : \E data \in DragData : Drop(i, data))
    \/ Settle

SpecReorder == InitReorder /\ [][NextReorder]_vars

\* Open-palette requests that come one after the other: none is made while
\* another is awaited.
PanelInTurn ==
    \/ (Awaited = 0 /\ ActivateView)
    \/ \E l \in Leaves : SetViewStateDone(l)
    \/ \E l \in Leaves : CloseLeaf(l)

\* The settings tab and the panel it refreshes.
NextCfg ==
    \/ LoadSettings
    \/ (nmut < MaxShownMutations /\ Mutate)
    \/ Settle
    \/ PanelInTurn

SpecCfg == Init /\ [][NextCfg]_vars

\* The panel and the editors on a first run (nothing persisted), the settings
\* tab left alone.
NextIns == LoadSettings \/ Panel \/ Edit

InitIns == InitWith(NoData)

SpecIns == InitIns /\ [][NextIns]_vars

\* The settings tab, the panel and the editors together, after an earlier run
\* that saved an order and a flag of its own: the handlers that change the
\* configuration next to those that must not. The panel is opened and stays
\* open, the cursor stays where the editor opened, and the symbols clicked are
\* those of one section.
InitFrame == InitWith(SavedEarlier)

NextFrame ==
    \/ LoadSettings
    \/ (nmut < MaxShownMutations /\ Mutate)
    \/ Settle
    \/ (Awaited = 0 /\ ActivateView)
    \/ \E l \in Leaves : SetViewStateDone(l)
    \/ \E a \in MarkdownViews \cup {None} : FocusChange(a)
    \/ \E l \in Leaves : \E ch \in Range(ipaVowels) : Click(l, "Vowels", ch)

SpecFrame == InitFrame /\ [][NextFrame]_vars

\* ------------------------------------------------------------------ claims
IsPermutation(order) ==
    /\ Len(order) = Len(CategoryNames)
    /\ Range(order) = Categories

\* s without its entry at the 0-based index i.
Without(s, i) == SubSeq(s, 1, i) \o SubSeq(s, i + 2, Len(s))

Order == settings.categoryOrder.items

\* C1: a symbol click inserts into the editor of the most recent focus change
\* that resolved to a document editor, whatever panel openings, closings and
\* non-editor focus changes came in between.
C1_ClickTargetsLastGenuineEditor ==
    (last.op = "click" /\ lastGenuine # None)
        => (last.editor = lastGenuine /\ last.notices = 0)

\* C2: once loaded, categoryOrder is a permutation of the four built-in
\* category names, after any load, drop and toggle.
C2_OrderIsPermutation ==
    loaded => (settings.categoryOrder.isArray /\ IsPermutation(Order))

\* C3: an insertion into the stored editor, whose cursor is at (L, C), puts
\* the glyph at (L, C) of that document, keeps every character before and
\* after it, leaves the other lines and the other documents alone, and
\* leaves the cursor at (L, C + len(glyph)).
C3_InsertSplicesAtCursor ==
    (last.op = "click" /\ last.editor # None) =>
        LET e == last.editor
            before == last.docsBefore[e]
            after == docs[e]
            L == before.cursor.line
            C == before.cursor.ch
            n == Len(last.sym)
            old == At(before.lines, L)
            new == At(after.lines, L)
        IN  /\ after.cursor = [line |-> L, ch |-> C + n]
            /\ Len(after.lines) = Len(before.lines)
            /\ \A k \in 0..(Len(before.lines) - 1) :
                    k # L => At(after.lines, k) = At(before.lines, k)
            /\ Len(new) = Len(old) + n
            /\ \A i \in 1..C : new[i] = old[i]
            /\ \A i \in 1..n : new[C + i] = last.sym[i]
            /\ \A i \in (C + 1)..Len(old) : new[i + n] = old[i]
            /\ \A o \in Editors \ {e} : docs[o] = last.docsBefore[o]
            /\ last.notices = 0

C3_Witness ==
    /\ last.op = "click"
    /\ last.editor = "e1"
    /\ last.docsBefore["e1"].cursor = [line |-> 0, ch |-> 1]
    /\ Len(At(last.docsBefore["e1"].lines, 0)) = 2

\* C4: a click on a view whose listener never saw an editor raises exactly
\* one notice, calls no editor method and changes no document.
C4_NoEditorSeenNoticeOnly ==
    (last.op = "click" /\ ~everSeen[last.leaf]) =>
        /\ last.notices = 1
        /\ last.calls = <<>>
        /\ last.editor = None
        /\ docs = last.docsBefore

C4_Witness == last.op = "click" /\ ~everSeen[last.leaf]

\* C5: a drop that moves the entry at an in-range index of a permutation to
\* an in-range index puts that entry at the new index and keeps the relative
\* order of the others; [V, C, D, S] with Diacritics dropped on index 0 gives
\* [D, V, C, S].
C5_ReorderIsStableMove ==
    (/\ last.op = "drop"
     /\ last.saveIssued
     /\ IsPermutation(last.settingsBefore.categoryOrder.items)
     /\ ~last.from.nan
     /\ last.from.n \in 0..(Len(CategoryNames) - 1)
     /\ last.to \in 0..(Len(CategoryNames) - 1)) =>
        LET old == last.settingsBefore.categoryOrder.items
        IN  /\ IsPermutation(Order)
            /\ At(Order, last.to) = At(old, last.from.n)
            /\ Without(Order, last.to) = Without(old, last.from.n)
            /\ (old = CategoryNames /\ last.from.n = 2 /\ last.to = 0) =>
                    Order = <<"Diacritics", "Vowels", "Consonants", "Suprasegmentals">>

C5_Witness ==
    /\ last.op = "drop"
    /\ last.saveIssued
    /\ last.settingsBefore.categoryOrder.items = CategoryNames
    /\ last.from = Num(2)
    /\ last.to = 0

\* C6: whenever the palette renders (a view opens, or a handler refreshes it
\* after a save), its sections are exactly the entries of categoryOrder whose
\* flag is true, in categoryOrder sequence: a category toggled off is in no
\* section, a category toggled on is at its categoryOrder position.
Visible(category) == category \in Categories /\ settings[FlagOf(category)]

C6_RenderPlanIsVisibleInOrder ==
    (last.op \in {"open", "saveResolved"} /\ last.leaf # 0) =>
        /\ rendered[last.leaf] = SelectSeq(Order, Visible)
        /\ \A c \in Categories :
                c \in Range(rendered[last.leaf]) <=> (Visible(c) /\ c \in Range(Order))

C6_Witness ==
    /\ last.op = "saveResolved"
    /\ last.leaf # 0
    /\ Order # CategoryNames
    /\ IsPermutation(Order)
    /\ \E c \in Categories : ~Visible(c)
    /\ rendered[last.leaf] # <<>>

\* C7: load takes each field from the persisted data when the data has it and
\* from the defaults when it has not; {showVowels: false} alone gives
\* showVowels false, the other flags true and the default order; no data
\* gives the defaults.
C7_LoadMergesFieldByField ==
    (last.op = "load") =>
        /\ \A f \in Fields :
                settings[f] = IF f \in last.data.has THEN last.data.val[f]
                              ELSE DEFAULT_SETTINGS[f]
        /\ last.data = OnlyShowVowels =>
                /\ ~settings.showVowels
                /\ settings.showConsonants
                /\ settings.showDiacritics
                /\ settings.showSuprasegmentals
                /\ settings.categoryOrder = Arr(CategoryNames)
        /\ last.data.has = {} => settings = DEFAULT_SETTINGS

C7_Witness == last.op = "load" /\ last.data = OnlyShowVowels

\* C8: every save call passes the whole settings object as it is in memory; a
\* rejected save changes nothing in memory; and when the latest save issued
\* succeeds, the storage holds the settings in memory, the changes whose own
\* save was rejected included.
C8_LatestSaveCarriesWholeConfig ==
    /\ last.saveIssued => last.payload = settings
    /\ last.op = "saveRejected" =>
            /\ settings = last.settingsBefore
            /\ last.latest => settings = last.payload
    /\ (last.op = "saveResolved" /\ last.latest) =>
            stored = [has |-> Fields, val |-> settings]

C8_Witness ==
    /\ last.op = "saveResolved"
    /\ last.latest
    /\ rejections > 0
    /\ pending = <<>>
    /\ stored.val # MergeSettings(NoData)

\* C9: at most one leaf holds a palette view, however the open-palette
\* requests interleave.
C9_AtMostOnePaletteLeaf == Cardinality(LeavesOfType) <= 1

\* C10 as stated: a drop on the item's own index leaves the order unchanged
\* but still saves (and so re-renders).
C10_SameIndexStillPersists ==
    (last.op = "drop" /\ ~last.from.nan /\ last.from.n = last.to) =>
        (settings = last.settingsBefore /\ last.saveIssued)

\* C10 as amended: a drop on the item's own index leaves the settings
\* unchanged, calls no save and suspends no handler that would refresh.
C10_SameIndexDoesNothing ==
    (last.op = "drop" /\ ~last.from.nan /\ last.from.n = last.to) =>
        /\ settings = last.settingsBefore
        /\ ~last.saveIssued
        /\ ~last.refreshed
        /\ Len(pending) = last.pendingBefore

C10_Witness == last.op = "drop" /\ ~last.from.nan /\ last.from.n = last.to

\* C11: a persisted categoryOrder that is present but is no permutation of
\* the four names (null, or an array with a foreign name) is replaced by the
\* default order on load, and no later onOpen finds a categoryOrder it cannot
\* iterate.
C11_InvalidOrderIsDefaultFilled ==
    /\ (/\ last.op = "load"
        /\ "categoryOrder" \in last.data.has
        /\ ~(/\ last.data.val.categoryOrder.isArray
             /\ IsPermutation(last.data.val.categoryOrder.items)))
            => settings.categoryOrder = DEFAULT_SETTINGS.categoryOrder
    /\ last.op = "open" => settings.categoryOrder.isArray

\* C12: a toggle or a reordering drop first updates the field, then calls the
\* save with the whole updated settings, and only then asks for the refresh;
\* every such handler asks for the refresh before it ends.
C12_UpdateSaveThenRefreshAlways ==
    /\ (last.op \in {"toggle", "drop"} /\ last.saveIssued) =>
            /\ last.payload = settings
            /\ ~last.refreshed
    /\ last.op \in {"saveResolved", "saveRejected"} => last.refreshed

\* C14: a drop of a dragged item of the list moves the category whose label
\* that item shows to the index of the item dropped on.
C14_DropMovesTheLabelDragged ==
    (/\ last.op = "drop"
     /\ last.saveIssued
     /\ ~last.from.nan
     /\ last.from.n \in 0..(Len(shown.labels) - 1)) =>
        At(Order, last.to) = At(shown.labels, last.from.n)

\* C15: whenever no toggle or drop handler is suspended, every open panel
\* shows the sections of the settings in memory: the visible entries of
\* categoryOrder, in order.
C15_PanelShowsCurrentPlan ==
    pending = <<>> =>
        \A l \in Leaves : leafOpen[l] => rendered[l] = SelectSeq(Order, Visible)

\* C13: a toggle changes no field of the settings but the flag of its own
\* category, a drop changes none of the four flags, and a focus change or a
\* click on a symbol changes neither the settings in memory, nor the persisted
\* data, nor the saves under way.
C13_UpdatesAreIndependent ==
    [][/\ last'.op = "toggle" =>
            \A f \in Fields \ {"show" \o last'.category} : settings'[f] = settings[f]
       /\ last'.op = "drop" =>
            \A f \in Fields \ {"categoryOrder"} : settings'[f] = settings[f]
       /\ (\/ last'.op = "click"
           \/ \E a \in MarkdownViews \cup {None} : FocusChange(a)) =>
            /\ settings' = settings
            /\ stored' = stored
            /\ pending' = pending]_vars

\* A toggle handled after a symbol was inserted, while another category is
\* hidden and the order is not the default one.
C13_Witness ==
    /\ last.op = "toggle"
    /\ nins > 0
    /\ \E c \in Categories \ {last.category} : ~Visible(c)
    /\ Order # DEFAULT_SETTINGS.categoryOrder.items

====
